---- MODULE Spec2Model ----
(***************************************************************************)
(* Model of me5413_world/src/path_tracker_node.cpp: the pure-pursuit /     *)
(* PID path tracker node.                                                  *)
(*                                                                         *)
(* Units.  Lengths are integers in metres, lookahead distances are         *)
(* integers in half metres (1.5 m = 3), speeds and PID gains are integers  *)
(* in tenths, the PID integral is in hundredths, PID outputs are in        *)
(* thousandths, angles are integers in units of pi/4 and the angular rate  *)
(* is in units of pi/40 (1.9 * pi/4 = 19 * pi/40).  An angle held in a     *)
(* double is a record [nan, v]: nan = TRUE is the IEEE not-a-number.       *)
(***************************************************************************)
EXTENDS Integers, Sequences, FiniteSets

VARIABLES
  SPEED_TARGET,        \* global double SPEED_TARGET (tenths)
  PID_Kp,              \* global double PID_Kp (tenths)
  PID_Ki,              \* global double PID_Ki (tenths)
  PID_Kd,              \* global double PID_Kd (tenths)
  ahead_distance,      \* global double ahead_distance (half metres)
  PARAMS_UPDATED,      \* global bool PARAMS_UPDATED
  pid_,                \* member control::PID pid_
  odom_world_robot_,   \* member nav_msgs::Odometry odom_world_robot_
  world_frame_,        \* member std::string world_frame_
  robot_frame_,        \* member std::string robot_frame_
  pub_cmd_vel_,        \* number of messages published on cmd_vel
  crashed,             \* the process was ended by the out-of-bounds read
  event,               \* history: the event handled last and what its cycle used
  hist,                \* history: last valid push, odometry seen, non-empty paths
  sel                  \* a single call of calculateTargetPoint: inputs and outcome

vars == << SPEED_TARGET, PID_Kp, PID_Ki, PID_Kd, ahead_distance, PARAMS_UPDATED,
           pid_, odom_world_robot_, world_frame_, robot_frame_, pub_cmd_vel_,
           crashed, event, hist, sel >>

nodeVars == << SPEED_TARGET, PID_Kp, PID_Ki, PID_Kd, ahead_distance, PARAMS_UPDATED,
               pid_, odom_world_robot_, world_frame_, robot_frame_, pub_cmd_vel_,
               crashed, event, hist >>

-----------------------------------------------------------------------------
(* Bounds of the model *)

\* longest path handed to calculateTargetPoint on its own
MaxPathLen == 3

\* longest path of a path event
MaxEventPathLen == 2

\* control cycles (path events) in one run; caps the PID integral
MaxCycles == 2

-----------------------------------------------------------------------------
(* Program constants *)

\* control::PID(0.1, 1.0, -1.0, ...): dt = 0.1, held as 1/dt
PidDtInv == 10

\* control::PID(0.1, 1.0, -1.0, ...): max = 1.0, in thousandths
PidMax == 1000

\* control::PID(0.1, 1.0, -1.0, ...): min = -1.0, in thousandths
PidMin == -1000

\* ahead_distance = 1.5, in half metres
AheadDistanceLiteral == 3

\* cmd_vel.angular.z = 1.9 * yaw_error, in tenths
HeadingGain == 19

-----------------------------------------------------------------------------
(* Doubles that may be NaN *)

NaN == [nan |-> TRUE, v |-> 0]

Num(v) == [nan |-> FALSE, v |-> v]

\* a - b on doubles: NaN if either operand is
DSub(a, b) == IF a.nan \/ b.nan THEN NaN ELSE Num(a.v - b.v)

\* k * a on doubles
DScale(k, a) == IF a.nan THEN NaN ELSE Num(k * a.v)

\* C fmod(a, m) for m > 0: the remainder has the sign of the dividend
Fmod(a, m) == IF a >= 0 THEN a % m ELSE -((-a) % m)

\* sqrt of a perfect square
Sqrt(n) == CHOOSE r \in 0..n : r * r = n

\* atan2(dy, dx) in units of pi/4, for the eight compass directions and (0, 0)
Atan2(dy, dx) ==
  CASE dy = 0 /\ dx >= 0        -> 0
    [] dy = 0 /\ dx < 0         -> 4
    [] dx = 0 /\ dy > 0         -> 2
    [] dx = 0 /\ dy < 0         -> -2
    [] dx > 0 /\ dy = dx        -> 1
    [] dx > 0 /\ dy = -dx       -> -1
    [] dx < 0 /\ dy = -dx       -> 3
    [] dx < 0 /\ dy = dx        -> -3

\* angles::normalize_angle, in units of pi/4 (pi = 4, 2*pi = 8):
\*   result = fmod(angle + M_PI, 2.0*M_PI);
\*   if (result <= 0.0) return result + M_PI;  return result - M_PI;
\* every comparison with NaN is false and NaN propagates through + and -
normalize_angle(angle) ==
  IF angle.nan THEN NaN
  ELSE LET result == Fmod(angle.v + 4, 8)
       IN  IF result <= 0 THEN Num(result + 4) ELSE Num(result - 4)

-----------------------------------------------------------------------------
(* Messages *)

Point(x, y, z) == [x |-> x, y |-> y, z |-> z]

Quat(x, y, z, w) == [x |-> x, y |-> y, z |-> z, w |-> w]

\* positions of the robot in odometry messages
RobotPositions == { Point(0, 0, 0), Point(1, 1, 0) }

\* orientations in odometry messages: yaw 0, pi/2, pi, -pi/2 (not normalised;
\* tf2::Matrix3x3::setRotation divides by the squared length)
Orientations == { Quat(0, 0, 0, 1), Quat(0, 0, 1, 1), Quat(0, 0, 1, 0), Quat(0, 0, -1, 1) }

\* linear velocities in odometry messages (tenths): speed 0 and 0.5
Velocities == { Point(0, 0, 0), Point(3, 4, 0) }

\* odometry messages; their frame ids differ from the constructor's
OdomMsgs ==
  { [position |-> p, orientation |-> q, linear |-> v,
     frame_id |-> "odom", child_frame_id |-> "base"] :
      p \in RobotPositions, q \in Orientations, v \in Velocities }

\* a default-constructed nav_msgs::Odometry: every number is 0, every string empty
DefaultOdometry ==
  [position |-> Point(0, 0, 0), orientation |-> Quat(0, 0, 0, 0),
   linear |-> Point(0, 0, 0), frame_id |-> "", child_frame_id |-> ""]

\* positions of path poses
PathPoints ==
  { Point(1, 0, 0), Point(2, 0, 0), Point(0, 1, 0), Point(2, 2, 0), Point(0, 0, 2) }

RECURSIVE SeqsUpTo(_, _)
SeqsUpTo(S, n) ==
  IF n = 0 THEN { << >> }
  ELSE LET shorter == SeqsUpTo(S, n - 1)
       IN  shorter \cup { Append(s, x) : s \in { t \in shorter : Len(t) = n - 1 }, x \in S }

\* nav_msgs::Path::poses handed to calculateTargetPoint, the empty path included
Paths == SeqsUpTo(PathPoints, MaxPathLen)

\* positions of the poses of path events
EventPathPoints == { Point(1, 0, 0), Point(2, 0, 0), Point(0, 1, 0) }

\* nav_msgs::Path::poses of path events, the empty path included
EventPaths == SeqsUpTo(EventPathPoints, MaxEventPathLen)

\* what the read of poses.back() of an empty vector may yield when it does not trap
GarbagePoints == { Point(0, 1, 0) }

Config(s, kp, ki, kd, la) ==
  [speed_target |-> s, PID_Kp |-> kp, PID_Ki |-> ki, PID_Kd |-> kd,
   lookahead_distance |-> la]

\* the configuration the reconfigure server holds at start-up
DefaultConfig == Config(5, 5, 0, 0, 3)

\* configurations pushed by dynamic reconfigure: two valid ones, one with a
\* negative target speed, one with lookahead_distance = -1
Configs ==
  { DefaultConfig,
    Config(10, 20, 10, 1, 4),
    Config(-5, 10, 2, 2, 3),
    Config(10, 10, 2, 2, -2) }

-----------------------------------------------------------------------------
(* calculateTargetPoint *)

\* the lambda with > in place of >=: a pose exactly at the lookahead distance
\* is passed over
LookaheadPredMutant(pointPos, currentPosition, lookaheadDist) ==
  LET d2 == (pointPos.x - currentPosition.x) * (pointPos.x - currentPosition.x)
          + (pointPos.y - currentPosition.y) * (pointPos.y - currentPosition.y)
          + (pointPos.z - currentPosition.z) * (pointPos.z - currentPosition.z)
  IN  lookaheadDist < 0 \/ 4 * d2 > lookaheadDist * lookaheadDist

\* the lambda of find_if: sqrt(dx^2 + dy^2 + dz^2) >= lookaheadDist
\* (a square root is >= 0, so the test is true for every lookaheadDist <= 0;
\* lookaheadDist is in half metres, hence the factor 4)
LookaheadPred(pointPos, currentPosition, lookaheadDist) ==
  LET d2 == (pointPos.x - currentPosition.x) * (pointPos.x - currentPosition.x)
          + (pointPos.y - currentPosition.y) * (pointPos.y - currentPosition.y)
          + (pointPos.z - currentPosition.z) * (pointPos.z - currentPosition.z)
  IN  lookaheadDist <= 0 \/ 4 * d2 >= lookaheadDist * lookaheadDist

\* std::find_if from index i: the first index whose pose satisfies the lambda,
\* Len(poses) + 1 (end()) when none does
RECURSIVE FindIf(_, _, _, _)
FindIf(poses, i, currentPosition, lookaheadDist) ==
  IF i > Len(poses) THEN Len(poses) + 1
  ELSE IF LookaheadPred(poses[i], currentPosition, lookaheadDist) THEN i
  ELSE FindIf(poses, i + 1, currentPosition, lookaheadDist)

Outcome(k, p) == [kind |-> k, p |-> p]

\* The outcomes of a call.  poses.back() of an empty vector is undefined
\* behaviour: the read traps ("crash") or yields whatever lies before the
\* storage (a garbage point).
calculateTargetPoint(currentPosition, poses, lookaheadDist) ==
  LET lookaheadPoint == FindIf(poses, 1, currentPosition, lookaheadDist)
  IN  IF lookaheadPoint /= Len(poses) + 1
      THEN { Outcome("point", poses[lookaheadPoint]) }
      ELSE IF Len(poses) > 0
      THEN { Outcome("point", poses[Len(poses)]) }
      ELSE { Outcome("crash", Point(0, 0, 0)) }
           \cup { Outcome("point", g) : g \in GarbagePoints }

-----------------------------------------------------------------------------
(* control::PID (me5413_world/pid.hpp) *)

\* PID(dt, max, min, Kp, Ki, Kd): the accumulator and the previous error start at 0
PID(dtInv, max, min, Kp, Ki, Kd) ==
  [dtInv |-> dtInv, max |-> max, min |-> min, Kp |-> Kp, Ki |-> Ki, Kd |-> Kd,
   pre_error |-> 0, integral |-> 0]

\* updateSettings(Kp, Ki, Kd): replaces the three gains, keeps the accumulator
\* and the previous error
updateSettings(p, Kp, Ki, Kd) == [p EXCEPT !.Kp = Kp, !.Ki = Ki, !.Kd = Kd]

\* raw output of calculate(setpoint, pv), in thousandths:
\*   error = setpoint - pv; integral += error * dt;
\*   derivative = (error - pre_error) / dt;
\*   raw = Kp * error + Ki * integral + Kd * derivative
PidRaw(p, setpoint, pv) ==
  LET error      == setpoint - pv
      integral   == p.integral + (error * 10) \div p.dtInv
      derivative == (error - p.pre_error) * p.dtInv
  IN  10 * p.Kp * error + p.Ki * integral + 10 * p.Kd * derivative

Clamp(x, lo, hi) == IF x > hi THEN hi ELSE IF x < lo THEN lo ELSE x

\* calculate(setpoint, pv): the clamped output and the controller after the call
calculate(p, setpoint, pv) ==
  LET error == setpoint - pv
  IN  [output |-> Clamp(PidRaw(p, setpoint, pv), p.min, p.max),
       pid    |-> [p EXCEPT !.integral = p.integral + (error * 10) \div p.dtInv,
                            !.pre_error = error]]

-----------------------------------------------------------------------------
(* PathTrackerNode *)

\* tf2::Vector3::length() of a linear velocity
Length(v) == Sqrt(v.x * v.x + v.y * v.y + v.z * v.z)

\* tf2::Matrix3x3(q).getRPY(roll, pitch, yaw), the yaw, for q = (0, 0, z, w):
\* setRotation computes s = 2 / length2(q) and the matrix from it, and
\* yaw = atan2(m[1][0], m[0][0]) = atan2(s * w * z, 1 - s * z * z).
\* For the all-zero quaternion s is infinite, every entry is 0 * inf = NaN and
\* so is the yaw.
getRPY(q) ==
  LET d == q.x * q.x + q.y * q.y + q.z * q.z + q.w * q.w
  IN  IF d = 0 THEN NaN
      ELSE Num(Atan2(2 * (q.x * q.y + q.w * q.z), d - 2 * (q.y * q.y + q.z * q.z)))

\* the construction with 10.0 written for the upper bound 1.0
ConstructPidMutant(Kp, Ki, Kd) == PID(PidDtInv, 10 * PidMax, PidMin, Kp, Ki, Kd)

\* this->pid_ = control::PID(0.1, 1.0, -1.0, PID_Kp, PID_Ki, PID_Kd)
ConstructPid(Kp, Ki, Kd) == PID(PidDtInv, PidMax, PidMin, Kp, Ki, Kd)

\* spec: a configuration is valid when lookahead_distance > 0 and target_speed >= 0
ValidConfig(c) == c.lookahead_distance > 0 /\ c.speed_target >= 0

\* The node after its constructor: server.setCallback(f) calls
\* dynamicParamCallback with the server's configuration, then the frames and
\* the PID are set; odom_world_robot_ is default-constructed.
NodeInit ==
  /\ SPEED_TARGET = DefaultConfig.speed_target
  /\ PID_Kp = DefaultConfig.PID_Kp
  /\ PID_Ki = DefaultConfig.PID_Ki
  /\ PID_Kd = DefaultConfig.PID_Kd
  /\ ahead_distance = AheadDistanceLiteral
  /\ PARAMS_UPDATED = TRUE
  /\ robot_frame_ = "base_link"
  /\ world_frame_ = "world"
  /\ pid_ = ConstructPid(DefaultConfig.PID_Kp, DefaultConfig.PID_Ki, DefaultConfig.PID_Kd)
  /\ odom_world_robot_ = DefaultOdometry
  /\ pub_cmd_vel_ = 0
  /\ crashed = FALSE
  /\ event = [kind |-> "init"]
  /\ hist = [lastValid |-> DefaultConfig, odomSeen |-> FALSE, cycles |-> 0, nonEmpty |-> 0]

SelIdle == [pc |-> "idle"]

Init == NodeInit /\ sel = SelIdle

\* void dynamicParamCallback(config, level)
dynamicParamCallback(config) ==
  /\ ~crashed
  /\ SPEED_TARGET' = config.speed_target
  /\ PID_Kp' = config.PID_Kp
  /\ PID_Ki' = config.PID_Ki
  /\ PID_Kd' = config.PID_Kd
  /\ ahead_distance' = AheadDistanceLiteral
  /\ PARAMS_UPDATED' = TRUE
  /\ event' = [kind |-> "config", config |-> config]
  /\ hist' = IF ValidConfig(config) THEN [hist EXCEPT !.lastValid = config] ELSE hist
  /\ UNCHANGED << pid_, odom_world_robot_, world_frame_, robot_frame_, pub_cmd_vel_,
                  crashed, sel >>

\* void PathTrackerNode::robotOdomCallback(odom)
robotOdomCallback(odom) ==
  /\ ~crashed
  /\ world_frame_' = odom.frame_id
  /\ robot_frame_' = odom.child_frame_id
  /\ odom_world_robot_' = odom
  /\ event' = [kind |-> "odom"]
  /\ hist' = [hist EXCEPT !.odomSeen = TRUE]
  /\ UNCHANGED << SPEED_TARGET, PID_Kp, PID_Ki, PID_Kd, ahead_distance, PARAMS_UPDATED,
                  pid_, pub_cmd_vel_, crashed, sel >>

\* geometry_msgs::Twist PathTrackerNode::computeControlOutputs(odom_robot, path):
\* the possible results of the call in the current state, each with the
\* controller and the flag it leaves and with what the cycle used.
computeControlOutputs(odom_robot, poses) ==
  LET yaw_robot   == getRPY(odom_robot.orientation)
      point_robot == odom_robot.position
      velocity    == Length(odom_world_robot_.linear)
      pid1        == IF PARAMS_UPDATED
                     THEN updateSettings(pid_, PID_Kp, PID_Ki, PID_Kd)
                     ELSE pid_
      calc        == calculate(pid1, SPEED_TARGET, velocity)
  IN  { LET yaw_goal  == Num(Atan2(goal.p.y - point_robot.y, goal.p.x - point_robot.x))
            yaw_error == normalize_angle(DSub(yaw_goal, yaw_robot))
        IN  [returned  |-> goal.kind = "point",
             cmd_vel   |-> [linear |-> calc.output, angular |-> DScale(HeadingGain, yaw_error)],
             pid       |-> calc.pid,
             setpoint  |-> SPEED_TARGET,
             velocity  |-> velocity,
             gains     |-> << pid1.Kp, pid1.Ki, pid1.Kd >>,
             raw       |-> PidRaw(pid1, SPEED_TARGET, velocity),
             lookahead |-> ahead_distance,
             position  |-> point_robot,
             yaw_robot |-> yaw_robot,
             goal      |-> goal.p,
             yaw_error |-> yaw_error] :
        goal \in calculateTargetPoint(point_robot, poses, ahead_distance) }

\* void PathTrackerNode::localPathCallback(path): publishes what
\* computeControlOutputs returns; nothing is published when the call traps.
localPathCallback(poses) ==
  /\ ~crashed
  /\ hist.cycles < MaxCycles
  /\ \E r \in computeControlOutputs(odom_world_robot_, poses) :
       /\ pid_' = r.pid
       /\ PARAMS_UPDATED' = FALSE
       /\ crashed' = ~r.returned
       /\ pub_cmd_vel_' = IF r.returned THEN pub_cmd_vel_ + 1 ELSE pub_cmd_vel_
       /\ event' = [kind |-> "path", empty |-> (Len(poses) = 0),
                    hadOdom |-> hist.odomSeen, cycle |-> r]
  /\ hist' = [hist EXCEPT !.cycles = @ + 1,
                          !.nonEmpty = IF Len(poses) > 0 THEN @ + 1 ELSE @]
  /\ UNCHANGED << SPEED_TARGET, PID_Kp, PID_Ki, PID_Kd, ahead_distance,
                  odom_world_robot_, world_frame_, robot_frame_, sel >>

Next ==
  \/ \E config \in Configs : dynamicParamCallback(config)
  \/ \E odom \in OdomMsgs : robotOdomCallback(odom)
  \/ \E poses \in EventPaths : localPathCallback(poses)

Spec == Init /\ [][Next]_vars

-----------------------------------------------------------------------------
(* calculateTargetPoint on its own: every position, path and lookahead distance *)

\* lookahead distances of the calls, in half metres (0.5 .. 2.0, and 0 and -1.0)
LookaheadDists == { -2, 0, 1, 2, 3, 4 }

SelInit ==
  /\ NodeInit
  /\ sel \in { [pc |-> "call", currentPosition |-> c, poses |-> p, lookaheadDist |-> d] :
                 c \in RobotPositions, p \in Paths, d \in LookaheadDists }

SelectTarget ==
  /\ sel.pc = "call"
  /\ \E out \in calculateTargetPoint(sel.currentPosition, sel.poses, sel.lookaheadDist) :
       sel' = [pc |-> "done", currentPosition |-> sel.currentPosition, poses |-> sel.poses,
               lookaheadDist |-> sel.lookaheadDist, out |-> out]
  /\ UNCHANGED nodeVars

SelNext == SelectTarget

SelSpec == SelInit /\ [][SelNext]_vars

-----------------------------------------------------------------------------
(* Properties *)

Origin == Point(0, 0, 0)

\* four times the squared Euclidean distance of two points (half metres squared)
SqDist4(a, b) ==
  4 * ((a.x - b.x) * (a.x - b.x) + (a.y - b.y) * (a.y - b.y) + (a.z - b.z) * (a.z - b.z))

Min(S) == CHOOSE m \in S : \A n \in S : m <= n

\* the event handled last was a control cycle on a non-empty path
CycleDone == event.kind = "path" /\ ~event.empty

\* C1: for a non-empty path and a lookahead distance d > 0, calculateTargetPoint
\* returns the pose of the smallest index whose distance from the current
\* position is >= d, and the last pose when no index is that far.
C1_FirstFarPointOrLast ==
  (sel.pc = "done" /\ Len(sel.poses) > 0 /\ sel.lookaheadDist > 0) =>
    LET far == { i \in 1..Len(sel.poses) :
                   SqDist4(sel.poses[i], sel.currentPosition)
                     >= sel.lookaheadDist * sel.lookaheadDist }
    IN  /\ sel.out.kind = "point"
        /\ sel.out.p = IF far = {} THEN sel.poses[Len(sel.poses)]
                       ELSE sel.poses[Min(far)]

\* C1 witness: from the origin with lookahead 1.5 on the path (1,0), (2,0), (2,2)
\* the call skipped (1,0), at distance 1, and returned (2,0), at distance 2.
C1_Witness ==
  /\ sel.pc = "done"
  /\ sel.currentPosition = Origin
  /\ sel.lookaheadDist = 3
  /\ sel.poses = << Point(1, 0, 0), Point(2, 0, 0), Point(2, 2, 0) >>
  /\ sel.out = Outcome("point", Point(2, 0, 0))

\* C2: calculateTargetPoint on a path of zero points ends in an explicit
\* EmptyPathError; it neither traps on nor returns the element before the storage.
C2_EmptyPathFailsExplicitly ==
  (sel.pc = "done" /\ Len(sel.poses) = 0) => sel.out.kind = "EmptyPathError"

\* C3: a path event with an empty path publishes nothing and leaves the cached
\* odometry, the frame ids and the PID accumulator and previous error as they were.
C3_EmptyPathEventAborts ==
  [][ (event'.kind = "path" /\ event'.empty /\ event' /= event) =>
        /\ pub_cmd_vel_' = pub_cmd_vel_
        /\ odom_world_robot_' = odom_world_robot_
        /\ world_frame_' = world_frame_
        /\ robot_frame_' = robot_frame_
        /\ pid_'.integral = pid_.integral
        /\ pid_'.pre_error = pid_.pre_error ]_vars

\* C4: a push of an invalid configuration (lookahead_distance <= 0 or
\* target_speed < 0) changes neither the target speed, the gains, the lookahead
\* distance nor the pending flag.
C4_InvalidPushRejected ==
  [][ (event'.kind = "config" /\ event' /= event /\ ~ValidConfig(event'.config)) =>
        /\ SPEED_TARGET' = SPEED_TARGET
        /\ PID_Kp' = PID_Kp
        /\ PID_Ki' = PID_Ki
        /\ PID_Kd' = PID_Kd
        /\ ahead_distance' = ahead_distance
        /\ PARAMS_UPDATED' = PARAMS_UPDATED ]_vars

\* C5: a control cycle computes the linear speed with the target speed and the
\* three gains of the most recent valid push, and ends with the pending flag false.
C5_CycleUsesLastValidPush ==
  CycleDone =>
    /\ event.cycle.setpoint = hist.lastValid.speed_target
    /\ event.cycle.gains = << hist.lastValid.PID_Kp, hist.lastValid.PID_Ki,
                              hist.lastValid.PID_Kd >>
    /\ PARAMS_UPDATED = FALSE

\* The same with "the most recent push", valid or not: what the code does.
CycleUsesLastPush ==
  CycleDone =>
    /\ event.cycle.setpoint = SPEED_TARGET
    /\ event.cycle.gains = << PID_Kp, PID_Ki, PID_Kd >>
    /\ PARAMS_UPDATED = FALSE

\* C6: the lookahead distance a control cycle hands to calculateTargetPoint is
\* the lookahead_distance of the most recent valid push.
C6_LookaheadFromLastValidPush ==
  CycleDone => event.cycle.lookahead = hist.lastValid.lookahead_distance

\* C7: the number of velocity commands published equals the number of path
\* events with a non-empty path.
C7_OneCommandPerNonEmptyPath == pub_cmd_vel_ = hist.nonEmpty

\* C8: a control cycle before any odometry runs at the origin with yaw 0 and
\* speed 0, and publishes the angular rate 1.9 * normalize(bearing from the
\* origin to the selected point).
C8_NeutralPoseBeforeOdometry ==
  (CycleDone /\ ~event.hadOdom) =>
    /\ event.cycle.returned
    /\ event.cycle.position = Origin
    /\ event.cycle.velocity = 0
    /\ event.cycle.yaw_robot = Num(0)
    /\ event.cycle.cmd_vel.angular =
         DScale(19, normalize_angle(Num(Atan2(event.cycle.goal.y, event.cycle.goal.x))))

\* C9: every velocity command published has its linear speed in [-1.0, 1.0].
C9_LinearSpeedClamped ==
  (event.kind = "path" /\ event.cycle.returned) =>
    /\ event.cycle.cmd_vel.linear >= -1000
    /\ event.cycle.cmd_vel.linear <= 1000

\* C9 witness: commands were published whose raw PID output was beyond the bound.
C9_Witness ==
  /\ event.kind = "path"
  /\ event.cycle.returned
  /\ event.cycle.raw > 1000
  /\ event.cycle.cmd_vel.linear = 1000

\* C10: with a defined yaw, the heading error of a control cycle lies in
\* [-pi, pi) and the angular rate in [-1.9 * pi, 1.9 * pi).
C10_HeadingErrorHalfOpen ==
  (CycleDone /\ ~event.cycle.yaw_robot.nan) =>
    /\ ~event.cycle.yaw_error.nan
    /\ event.cycle.yaw_error.v >= -4
    /\ event.cycle.yaw_error.v < 4
    /\ event.cycle.cmd_vel.angular.v >= -76
    /\ event.cycle.cmd_vel.angular.v < 76

\* What angles::normalize_angle gives instead: the heading error lies in (-pi, pi].
HeadingErrorHalfOpenAbove ==
  (CycleDone /\ ~event.cycle.yaw_robot.nan) =>
    /\ event.cycle.yaw_error.v > -4
    /\ event.cycle.yaw_error.v <= 4

====
